---- MODULE Spec2Model ----
(***************************************************************************)
(* A model of rust-irclib: the IRC line codec (conn.rs, Line::parse), the  *)
(* outbound framing (Conn::send_command), the built-in handlers            *)
(* (handlers.rs) and the session loop (connect, Conn::run).                *)
(*                                                                         *)
(* Byte strings (~[u8], &[u8], ~str) are sequences of byte values.         *)
(* Option<T> is a sequence of length 0 (None) or 1 (Some).                 *)
(***************************************************************************)
EXTENDS Integers, Sequences, FiniteSets, TLC

VARIABLES
    pc,         \* where connect() stands: "start", "cb_Connected", "run",
                \* "cb_LineReceived", "cb_Disconnected", "done", "failed"
    logged_in,  \* Conn.logged_in
    nick,       \* Conn.nick
    hist,       \* what the session did at its boundary, in order: lines read,
                \* writes issued, events given to the callback, io_error raised
    opts_nick,  \* Options.nick, as given to connect
    fn_pc,      \* pure-function specifications: "in" before, "out" after
    fn_in,      \* ... the input drawn by Init
    fn_out      \* ... the function's result

vars == <<pc, logged_in, nick, hist, opts_nick, fn_pc, fn_in, fn_out>>
\* what the session's steps leave alone
static == <<opts_nick, fn_pc, fn_in, fn_out>>
\* what the pure-function specifications leave alone
session == <<pc, logged_in, nick, hist, opts_nick>>

(***************************************************************************)
(* Bytes and byte strings of the source                                    *)
(***************************************************************************)
SP == 32
COLON == 58
UNDERSCORE == 95
SOH == 1
str_CRLF == <<13, 10>>                          \* "\r\n"
str_LF == <<10>>                                \* "\n"
str_NICK == <<78, 73, 67, 75>>                  \* "NICK"
str_QUIT == <<81, 85, 73, 84>>                  \* "QUIT"
str_PING == <<80, 73, 78, 71>>                  \* "PING"
str_PONG == <<80, 79, 78, 71>>                  \* "PONG"
str_PRIVMSG == <<80, 82, 73, 86, 77, 83, 71>>   \* "PRIVMSG"
str_NOTICE == <<78, 79, 84, 73, 67, 69>>        \* "NOTICE"
str_ACTION == <<65, 67, 84, 73, 79, 78>>        \* "ACTION"
str_PRIVMSG_SP == <<80, 82, 73, 86, 77, 83, 71, 32>>   \* "PRIVMSG "
str_NOTICE_SP == <<78, 79, 84, 73, 67, 69, 32>>        \* "NOTICE "
str_SP_COLON_SOH == <<32, 58, 1>>               \* " :\x01"

(***************************************************************************)
(* Option and slice helpers (std::option, std::vec)                        *)
(***************************************************************************)
None == <<>>
Some(x) == <<x>>
unwrap(o) == o[1]

min(a, b) == IF a < b THEN a ELSE b

\* v.slice(a, b), v.slice_from(a), v.slice_to(b): 0-based, end exclusive
slice(v, a, b) == SubSeq(v, a + 1, b)
slice_from(v, a) == SubSeq(v, a + 1, Len(v))
slice_to(v, b) == SubSeq(v, 1, b)

starts_with(v, p) == Len(v) >= Len(p) /\ SubSeq(v, 1, Len(p)) = p
ends_with(v, p) == Len(v) >= Len(p) /\ SubSeq(v, Len(v) - Len(p) + 1, Len(v)) = p

\* v.position_elem(&e): 0-based index of the first e in v
position_elem(v, e) ==
    IF \E i \in 1..Len(v) : v[i] = e
    THEN Some((CHOOSE i \in 1..Len(v) : v[i] = e /\ \A j \in 1..(i - 1) : v[j] # e) - 1)
    ELSE None

\* args.connect_vec(&sep): the elements joined, sep between two elements
RECURSIVE connect_vec(_, _)
connect_vec(vs, sep) ==
    IF vs = <<>> THEN <<>>
    ELSE IF Len(vs) = 1 THEN vs[1]
    ELSE vs[1] \o <<sep>> \o connect_vec(Tail(vs), sep)

\* uint::to_str_bytes(n, 10, ..): decimal digits, no padding
RECURSIVE to_str_bytes(_)
to_str_bytes(n) ==
    IF n < 10 THEN <<48 + n>> ELSE to_str_bytes(n \div 10) \o <<48 + (n % 10)>>

\* uint::parse_bytes(cmd, 10) of a digit string
RECURSIVE parse_bytes(_)
parse_bytes(ds) ==
    IF ds = <<>> THEN 0
    ELSE 10 * parse_bytes(SubSeq(ds, 1, Len(ds) - 1)) + (ds[Len(ds)] - 48)

is_digit(b) == b >= 48 /\ b <= 57
\* mutant: char::is_alphanumeric in the place of char::is_alphabetic
is_ascii_alphanumeric(b) ==
    b < 128 /\ ((b >= 48 /\ b <= 57) \/ (b >= 65 /\ b <= 90) \/ (b >= 97 /\ b <= 122))

\* b < 0x80 && char::is_alphabetic(b as char)
is_ascii_alphabetic(b) == b < 128 /\ ((b >= 65 /\ b <= 90) \/ (b >= 97 /\ b <= 122))

(***************************************************************************)
(* Command and Line                                                        *)
(***************************************************************************)
IRCCmd(cmd) == [tag |-> "IRCCmd", f0 |-> cmd, f1 |-> <<>>, code |-> 0]
IRCCode(c) == [tag |-> "IRCCode", f0 |-> <<>>, f1 |-> <<>>, code |-> c]
IRCAction(dst) == [tag |-> "IRCAction", f0 |-> dst, f1 |-> <<>>, code |-> 0]
IRCCTCP(x, y) == [tag |-> "IRCCTCP", f0 |-> x, f1 |-> y, code |-> 0]
IRCCTCPReply(x, y) == [tag |-> "IRCCTCPReply", f0 |-> x, f1 |-> y, code |-> 0]

is_ctcp(cmd) == cmd.tag \in {"IRCAction", "IRCCTCP", "IRCCTCPReply"}

Line(prefix, command, args) == [prefix |-> prefix, command |-> command, args |-> args]

chomp(s) ==
    IF ends_with(s, str_CRLF) THEN SubSeq(s, 1, Len(s) - 2)
    ELSE IF ends_with(s, str_LF) THEN SubSeq(s, 1, Len(s) - 1)
    ELSE s

(***************************************************************************)
(* Line::parse                                                             *)
(***************************************************************************)
\* the prefix: None is the early return, else the prefix and the rest of v
parse_prefix(v) ==
    IF starts_with(v, <<COLON>>)
    THEN LET idx == position_elem(v, SP) IN
         IF idx = None THEN None
         ELSE Some([prefix |-> Some(slice(v, 1, unwrap(idx))),
                    rest |-> slice_from(v, unwrap(idx) + 1)])
    ELSE Some([prefix |-> None, rest |-> v])

\* the command token: None is the early return
parse_command(v) ==
    LET idx == position_elem(v, SP) IN
    IF idx = Some(0) THEN None
    ELSE LET cmd == IF idx = None THEN v ELSE slice_to(v, unwrap(idx))
             rest == IF idx = None THEN <<>> ELSE slice_from(v, unwrap(idx) + 1)
         IN  IF Len(cmd) = 3 /\ \A i \in 1..Len(cmd) : is_digit(cmd[i])
             THEN Some([command |-> IRCCode(parse_bytes(cmd)), checkCTCP |-> FALSE,
                        rest |-> rest])
             ELSE IF \A i \in 1..Len(cmd) : is_ascii_alphabetic(cmd[i])
             THEN Some([command |-> IRCCmd(cmd),
                        checkCTCP |-> (cmd = str_PRIVMSG \/ cmd = str_NOTICE),
                        rest |-> rest])
             ELSE None

\* the argument loop
RECURSIVE parse_args(_, _)
parse_args(v, args) ==
    IF v = <<>> THEN args
    ELSE IF v[1] = COLON THEN Append(args, slice_from(v, 1))
    ELSE LET idx == position_elem(v, SP) IN
         IF idx = None THEN Append(args, v)
         ELSE parse_args(slice_from(v, unwrap(idx) + 1), Append(args, slice_to(v, unwrap(idx))))

\* mutant: the keyword stays in args, in front of the body
parse_ctcp_keyword_in_args(command, args0) ==
    LET last == args0[Len(args0)]
        text == IF Len(last) > 1 /\ ends_with(last, <<SOH>>)
                THEN slice(last, 1, Len(last) - 1)
                ELSE Tail(last)
        dst == args0[1]
        idx == position_elem(text, SP)
        ctcpcmd == IF idx = None THEN text ELSE slice_to(text, unwrap(idx))
    IN  [command |-> IF command = IRCCmd(str_PRIVMSG)
                     THEN IF str_ACTION = ctcpcmd THEN IRCAction(dst)
                          ELSE IRCCTCP(ctcpcmd, dst)
                     ELSE IRCCTCPReply(ctcpcmd, dst),
         args |-> <<text>>]

\* the CTCP re-tagging of a PRIVMSG or NOTICE: the command and the args
parse_ctcp(command, args0) ==
    LET last == args0[Len(args0)]
        text == IF Len(last) > 1 /\ ends_with(last, <<SOH>>)
                THEN slice(last, 1, Len(last) - 1)
                ELSE Tail(last)
        dst == args0[1]
        idx == position_elem(text, SP)
        ctcpcmd == IF idx = None THEN text ELSE slice_to(text, unwrap(idx))
        args == IF idx = None THEN <<>> ELSE <<slice_from(text, unwrap(idx) + 1)>>
    IN  [command |-> IF command = IRCCmd(str_PRIVMSG)
                     THEN IF str_ACTION = ctcpcmd THEN IRCAction(dst)
                          ELSE IRCCTCP(ctcpcmd, dst)
                     ELSE IRCCTCPReply(ctcpcmd, dst),
         args |-> args]

Line_parse(v0) ==
    LET p == parse_prefix(v0) IN
    IF p = None THEN None
    ELSE LET c == parse_command(unwrap(p).rest) IN
         IF c = None THEN None
         ELSE LET args == parse_args(unwrap(c).rest, <<>>)
                  command == unwrap(c).command
              IN  IF unwrap(c).checkCTCP /\ Len(args) > 1
                     /\ starts_with(args[Len(args)], <<SOH>>)
                  THEN LET r == parse_ctcp(command, args) IN
                       Some(Line(unwrap(p).prefix, r.command, r.args))
                  ELSE Some(Line(unwrap(p).prefix, command, args))

(***************************************************************************)
(* Line::to_raw (the capacity computed first only sizes the buffer)        *)
(***************************************************************************)
str_SP_COLON_SOH_ACTION == <<32, 58, 1, 65, 67, 84, 73, 79, 78>>   \* " :\x01ACTION"

to_raw_prefix(line) ==
    IF line.prefix # None THEN <<COLON>> \o unwrap(line.prefix) \o <<SP>> ELSE <<>>

\* mutant: the digits are pushed without the leading zeros
to_raw_code_unpadded(c) == to_str_bytes(c)

\* IRCCode(c): 3 - min(v.len(), 3) times '0', then the digits v
to_raw_code(c) ==
    LET v == to_str_bytes(c) IN
    [i \in 1..(3 - min(Len(v), 3)) |-> 48] \o v

to_raw_command(cmd) ==
    IF cmd.tag = "IRCCmd" THEN cmd.f0
    ELSE IF cmd.tag = "IRCCode" THEN to_raw_code(cmd.code)
    ELSE IF cmd.tag = "IRCAction" THEN str_PRIVMSG_SP \o cmd.f0 \o str_SP_COLON_SOH_ACTION
    ELSE IF cmd.tag = "IRCCTCP" THEN str_PRIVMSG_SP \o cmd.f1 \o str_SP_COLON_SOH \o cmd.f0
    ELSE str_NOTICE_SP \o cmd.f1 \o str_SP_COLON_SOH \o cmd.f0

\* for arg in ..iter() { res.push(' '); res.push_all(*arg) }
RECURSIVE push_args(_)
push_args(args) ==
    IF args = <<>> THEN <<>> ELSE <<SP>> \o args[1] \o push_args(Tail(args))

\* last.contains(&(' ' as u8))
contains(v, e) == \E i \in 1..Len(v) : v[i] = e

\* mutant: the last argument always gets its ':'
to_raw_plain_args_colon(args) ==
    push_args(SubSeq(args, 1, Len(args) - 1)) \o <<SP, COLON>> \o args[Len(args)]

\* the arguments of a line that is not CTCP and has some
to_raw_plain_args(args) ==
    LET last == args[Len(args)]
        found_space == contains(last, SP)
    IN  (IF Len(args) > 1 THEN push_args(SubSeq(args, 1, Len(args) - 1)) ELSE <<>>)
        \o <<SP>> \o (IF found_space THEN <<COLON>> ELSE <<>>) \o last

\* mutant: the closing 0x01 is not pushed
to_raw_args_open(line) ==
    IF is_ctcp(line.command) THEN push_args(line.args)
    ELSE IF line.args # <<>> THEN to_raw_plain_args(line.args)
    ELSE <<>>

to_raw_args(line) ==
    IF is_ctcp(line.command) THEN push_args(line.args) \o <<SOH>>
    ELSE IF line.args # <<>> THEN to_raw_plain_args(line.args)
    ELSE <<>>

to_raw(line) == to_raw_prefix(line) \o to_raw_command(line.command) \o to_raw_args(line)

(***************************************************************************)
(* lib.rs: User                                                            *)
(***************************************************************************)
BANG == 33      \* '!' as u8
AT == 64        \* '@' as u8

\* the loop of User::parse from byte i on (0-based), bangloc being `bang` so far:
\* the first '!' is kept, the first '@' is kept and ends the loop
RECURSIVE user_scan(_, _, _)
user_scan(v, i, bang) ==
    IF i >= Len(v) THEN [bangloc |-> bang, atloc |-> None]
    ELSE IF bang = None /\ v[i + 1] = BANG THEN user_scan(v, i + 1, Some(i))
    ELSE IF v[i + 1] = AT THEN [bangloc |-> bang, atloc |-> Some(i)]
    ELSE user_scan(v, i + 1, bang)

\* mutant: no `break`, the loop runs on after an '@' and keeps the last one
User_locs_no_break(v) ==
    [bangloc |-> position_elem(v, BANG),
     atloc |-> IF \E i \in 1..Len(v) : v[i] = AT
               THEN Some((CHOOSE i \in 1..Len(v) :
                            v[i] = AT /\ \A j \in (i + 1)..Len(v) : v[j] # AT) - 1)
               ELSE None]

\* (bangloc, atloc) after the loop
User_locs(v) == user_scan(v, 0, None)

User_parse(v) ==
    LET bangloc == User_locs(v).bangloc
        atloc == User_locs(v).atloc
        end == IF atloc # None THEN unwrap(atloc) ELSE Len(v)
    IN  [raw |-> v,
         nicklen |-> IF bangloc # None THEN unwrap(bangloc) ELSE end,
         user |-> IF bangloc # None THEN Some(<<unwrap(bangloc) + 1, end>>) ELSE None,
         host |-> IF atloc # None THEN Some(<<unwrap(atloc) + 1, Len(v)>>) ELSE None]

User_new(n, user, host) ==
    User_parse(n \o (IF user # None THEN <<BANG>> \o unwrap(user) ELSE <<>>)
                 \o (IF host # None THEN <<AT>> \o unwrap(host) ELSE <<>>))

User_raw(u) == u.raw
User_nick(u) == slice_to(u.raw, u.nicklen)
User_user(u) ==
    IF u.user # None THEN Some(slice(u.raw, unwrap(u.user)[1], unwrap(u.user)[2])) ELSE None
User_host(u) ==
    IF u.host # None THEN Some(slice(u.raw, unwrap(u.host)[1], unwrap(u.host)[2])) ELSE None
User_with_nick(u, n) == User_new(n, User_user(u), User_host(u))
\* impl Eq for User
User_eq(u, w) == u.raw = w.raw

(***************************************************************************)
(* Conn::send_command                                                      *)
(***************************************************************************)
LINE_LEN == 512     \* let mut line = [0u8, ..512]
BODY_LEN == 510     \* line.mut_slice_to(510)

\* mutant: the copy is not bounded by the region
append_unbounded(line, v) == line \o v

\* append(&mut buf, v): copy_from copies as many bytes as the rest of the 510-byte
\* region takes; `line` is the part of the region filled so far
append(line, v) == line \o slice_to(v, min(Len(v), BODY_LEN - Len(line)))

\* the byte strings send_command appends, in order
send_command_pieces(cmd, args) ==
    (IF cmd.tag = "IRCCmd" THEN <<cmd.f0>>
     ELSE IF cmd.tag = "IRCCode" THEN <<to_str_bytes(cmd.code)>>
     ELSE IF cmd.tag = "IRCAction" THEN <<str_PRIVMSG_SP, cmd.f0, str_SP_COLON_SOH, str_ACTION>>
     ELSE IF cmd.tag = "IRCCTCP" THEN <<str_PRIVMSG_SP, cmd.f0, str_SP_COLON_SOH, cmd.f1>>
     ELSE <<str_NOTICE_SP, cmd.f0, str_SP_COLON_SOH, cmd.f1>>)
    \o (IF args # <<>> THEN << <<SP>>, args >> ELSE <<>>)
    \o (IF is_ctcp(cmd) THEN << <<SOH>> >> ELSE <<>>)

RECURSIVE append_all(_, _)
append_all(line, pieces) ==
    IF pieces = <<>> THEN line
    ELSE append_all(append(line, pieces[1]), Tail(pieces))

\* the bytes handed to self.tcp.write: line.slice_to(len+2)
send_command_bytes(cmd, args) ==
    LET body == append_all(<<>>, send_command_pieces(cmd, args))
        len == Len(body)
        line == body \o str_CRLF \o [i \in 1..(LINE_LEN - len - 2) |-> 0]
    IN  slice_to(line, len + 2)

(***************************************************************************)
(* The session: conn is [logged_in, nick, tcp], tcp the writes issued      *)
(***************************************************************************)
send_command(conn, cmd, args) ==
    [conn EXCEPT !.tcp = Append(@, send_command_bytes(cmd, args))]

\* mutant: the NICK command is sent, self.nick is not assigned
set_nick_no_update(conn, n) == send_command(conn, IRCCmd(str_NICK), n)

set_nick(conn, n) ==
    [send_command(conn, IRCCmd(str_NICK), n) EXCEPT !.nick = n]

quit(conn) == send_command(conn, IRCCmd(str_QUIT), <<>>)

(***************************************************************************)
(* handlers.rs                                                             *)
(***************************************************************************)
RPL_WELCOME(conn, line) ==
    [conn EXCEPT !.logged_in = TRUE,
                 !.nick = IF line.args # <<>> THEN line.args[1] ELSE @]

\* mutant: nick.mut_iter(), the first byte that is not '_' becomes '_'
bad_nick_mutate_first(n) ==
    IF \E i \in 1..Len(n) : n[i] # UNDERSCORE
    THEN LET i == CHOOSE k \in 1..Len(n) :
                      n[k] # UNDERSCORE /\ \A j \in 1..(k - 1) : n[j] = UNDERSCORE
         IN  [nick |-> [n EXCEPT ![i] = UNDERSCORE], modified |-> TRUE]
    ELSE [nick |-> n, modified |-> FALSE]

\* for b in nick.mut_rev_iter(): the last byte that is not '_' becomes '_'
bad_nick_mutate(n) ==
    IF \E i \in 1..Len(n) : n[i] # UNDERSCORE
    THEN LET i == CHOOSE k \in 1..Len(n) :
                      n[k] # UNDERSCORE /\ \A j \in (k + 1)..Len(n) : n[j] = UNDERSCORE
         IN  [nick |-> [n EXCEPT ![i] = UNDERSCORE], modified |-> TRUE]
    ELSE [nick |-> n, modified |-> FALSE]

\* mutant: `modified` is not consulted, NICK is sent again and again
bad_nick_never_quits(conn, line) ==
    LET n == IF line.args # <<>> THEN line.args[1] ELSE conn.nick
    IN  set_nick(conn, bad_nick_mutate(n).nick)

bad_nick(conn, line) ==
    LET n == IF line.args # <<>> THEN line.args[1] ELSE conn.nick
        m == bad_nick_mutate(n)
    IN  IF m.modified THEN set_nick(conn, m.nick) ELSE quit(conn)

PING(conn, line) == send_command(conn, IRCCmd(str_PONG), connect_vec(line.args, SP))

\* mutant: 433 is dispatched to RPL_WELCOME
handle_line_433_welcome(conn, line) ==
    IF ~conn.logged_in
    THEN IF line.command = IRCCode(1) THEN RPL_WELCOME(conn, line)
         ELSE IF line.command = IRCCode(433) THEN RPL_WELCOME(conn, line)
         ELSE IF line.command = IRCCode(432) THEN bad_nick(conn, line)
         ELSE IF line.command = IRCCode(436) THEN bad_nick(conn, line)
         ELSE IF line.command = IRCCode(437) THEN bad_nick(conn, line)
         ELSE IF line.command = IRCCmd(str_PING) THEN PING(conn, line)
         ELSE conn
    ELSE IF line.command = IRCCmd(str_PING) THEN PING(conn, line)
         ELSE conn

\* mutant: PING is answered only once logged in
handle_line_ping_after_login(conn, line) ==
    IF ~conn.logged_in
    THEN IF line.command = IRCCode(1) THEN RPL_WELCOME(conn, line)
         ELSE IF line.command = IRCCode(433) THEN bad_nick(conn, line)
         ELSE IF line.command = IRCCode(432) THEN bad_nick(conn, line)
         ELSE IF line.command = IRCCode(436) THEN bad_nick(conn, line)
         ELSE IF line.command = IRCCode(437) THEN bad_nick(conn, line)
         ELSE conn
    ELSE IF line.command = IRCCmd(str_PING) THEN PING(conn, line)
         ELSE conn

\* mutant: conn.logged_in is not consulted, the handshake handlers stay in place
handle_line_always_handshake(conn, line) ==
    IF line.command = IRCCode(1) THEN RPL_WELCOME(conn, line)
    ELSE IF line.command = IRCCode(433) THEN bad_nick(conn, line)
    ELSE IF line.command = IRCCode(432) THEN bad_nick(conn, line)
    ELSE IF line.command = IRCCode(436) THEN bad_nick(conn, line)
    ELSE IF line.command = IRCCode(437) THEN bad_nick(conn, line)
    ELSE IF line.command = IRCCmd(str_PING) THEN PING(conn, line)
    ELSE conn

handle_line(conn, line) ==
    IF ~conn.logged_in
    THEN IF line.command = IRCCode(1) THEN RPL_WELCOME(conn, line)
         ELSE IF line.command = IRCCode(433) THEN bad_nick(conn, line)
         ELSE IF line.command = IRCCode(432) THEN bad_nick(conn, line)
         ELSE IF line.command = IRCCode(436) THEN bad_nick(conn, line)
         ELSE IF line.command = IRCCode(437) THEN bad_nick(conn, line)
         ELSE IF line.command = IRCCmd(str_PING) THEN PING(conn, line)
         ELSE conn
    ELSE IF line.command = IRCCmd(str_PING) THEN PING(conn, line)
         ELSE conn

(***************************************************************************)
(* Events given to the callback, and the other entries of hist             *)
(***************************************************************************)
Connected == [t |-> "Connected", b |-> <<>>, l |-> None, via |-> ""]
LineReceived(line) == [t |-> "LineReceived", b |-> <<>>, l |-> Some(line), via |-> ""]
Disconnected == [t |-> "Disconnected", b |-> <<>>, l |-> None, via |-> ""]

\* self.tcp.read_until('\n') returned Some(raw); l is what Line::parse makes of it
\* after chomp
ReadEntry(raw) == [t |-> "read", b |-> raw, l |-> Line_parse(chomp(raw)), via |-> ""]
\* self.tcp.write(bytes), reached through `via`: "handle_line" from the loop's
\* dispatch, "set_nick", "send_command" or "quit" from the callback
WriteEntry(bytes, via) == [t |-> "write", b |-> bytes, l |-> None, via |-> via]
\* the io_error condition was raised by the transport
IoErrorEntry == [t |-> "io_error", b |-> <<>>, l |-> None, via |-> ""]

Writes(tcp, via) == [i \in 1..Len(tcp) |-> WriteEntry(tcp[i], via)]

Count(t) == Cardinality({i \in 1..Len(hist) : hist[i].t = t})
CountVia(vias) == Cardinality({i \in 1..Len(hist) : hist[i].t = "write" /\ hist[i].via \in vias})
CallbackCalls == CountVia({"set_nick", "send_command", "quit"})
\* what the environment has done so far
Steps == Count("read") + CallbackCalls + Count("io_error")

(***************************************************************************)
(* Bounds and inputs                                                       *)
(***************************************************************************)
\* what the environment does in one session: lines the transport delivers, Conn
\* methods the callback calls and io_error conditions the transport raises
MaxSteps == 3

nick_ab == <<97, 98>>                           \* "ab"
nick_a_ == <<97, 95>>                           \* "a_"
nick_c_ == <<99, 95>>                           \* "c_"
nick_zed == <<122, 101, 100>>                   \* "zed"

\* Options.nick
OptsNicks == {nick_ab, nick_a_}

line_welcome == <<48, 48, 49, 32, 98, 111, 98, 13, 10>>     \* "001 bob\r\n"
line_welcome0 == <<48, 48, 49, 10>>                         \* "001\n"
line_433 == <<52, 51, 51, 13, 10>>                          \* "433\r\n"
line_436 == <<52, 51, 54, 32, 95, 95, 10>>                  \* "436 __\n"
line_437 == <<52, 51, 55, 32, 42, 32, 120, 95>>             \* "437 * x_", cut by end-of-stream
line_ping == <<58, 115, 32, 80, 73, 78, 71, 32, 97, 32, 58, 98, 32, 99, 13, 10>>
                                                            \* ":s PING a :b c\r\n"
line_ping0 == <<80, 73, 78, 71, 13, 10>>                    \* "PING\r\n"
line_msg == <<58, 115, 32, 80, 82, 73, 86, 77, 83, 71, 32, 35, 99, 32, 58, 104, 105, 13, 10>>
                                                            \* ":s PRIVMSG #c :hi\r\n"
line_bad == <<58, 98, 111, 98, 32, 102, 50, 51, 13, 10>>    \* ":bob f23\r\n"
str_432_SP == <<52, 51, 50, 32>>                            \* "432 "

\* "432 <nick>\r\n": the server rejects the nickname the session holds
line_432(n) == str_432_SP \o n \o str_CRLF

\* the nickname carried by a NICK command as written: "NICK <nick>\r\n"
NickCarried(bytes) == slice_from(chomp(bytes), Len(str_NICK) + 1)
IsNickWrite(e) == e.t = "write" /\ starts_with(e.b, str_NICK)

\* the nicknames a server may name in a rejection: the one the session holds and
\* the one it sent last
RejectedNicks ==
    {nick} \cup {NickCarried(hist[i].b) : i \in {j \in 1..Len(hist) :
                    IsNickWrite(hist[j]) /\ \A k \in (j + 1)..Len(hist) : ~IsNickWrite(hist[k])}}

\* what read_until can return next
InputLines == {line_welcome, line_welcome0, line_433, line_436, line_437,
               line_ping, line_ping0, line_msg, line_bad}
              \cup {line_432(n) : n \in RejectedNicks}

\* read_until returns a line without '\n' only when the stream ends behind it
LastReadComplete ==
    \A i \in 1..Len(hist) : hist[i].t = "read" => ends_with(hist[i].b, str_LF)

CbSetNicks == {nick_c_}
CbCommands == {<<IRCCmd(str_NICK), nick_zed>>}

(***************************************************************************)
(* connect and Conn::run                                                   *)
(***************************************************************************)
Init ==
    /\ pc = "start"
    /\ logged_in = FALSE
    /\ opts_nick \in OptsNicks
    /\ nick = opts_nick
    /\ hist = <<>>
    /\ fn_pc = "off" /\ fn_in = <<>> /\ fn_out = <<>>

Conn == [logged_in |-> logged_in, nick |-> nick, tcp |-> <<>>]

\* mutant: the callback is given the line before handle_line has written
CallOk_event_first(c, pre, via, post, npc) ==
    /\ hist' = hist \o pre \o post \o Writes(c.tcp, via)
    /\ logged_in' = c.logged_in
    /\ nick' = c.nick
    /\ pc' = npc

\* A call that leaves conn as c, its writes accepted by the transport
CallOk(c, pre, via, post, npc) ==
    /\ hist' = hist \o pre \o Writes(c.tcp, via) \o post
    /\ logged_in' = c.logged_in
    /\ nick' = c.nick
    /\ pc' = npc

\* ... its write raising io_error, which a handler of the caller traps
CallIoTrapped(c, pre, via, post, npc) ==
    /\ c.tcp # <<>>
    /\ Steps + 1 < MaxSteps
    /\ hist' = hist \o pre \o Writes(c.tcp, via) \o <<IoErrorEntry>> \o post
    /\ logged_in' = c.logged_in
    /\ nick' = c.nick
    /\ pc' = npc

\* ... its write raising io_error with no handler: the task fails inside
\* send_command, before anything that follows the write
CallIoUntrapped(c, pre, via) ==
    /\ c.tcp # <<>>
    /\ Steps + 1 < MaxSteps
    /\ hist' = hist \o pre \o Writes(c.tcp, via) \o <<IoErrorEntry>>
    /\ pc' = "failed"
    /\ UNCHANGED <<logged_in, nick>>

Call(c, pre, via, post, npc) ==
    \/ CallOk(c, pre, via, post, npc)
    \/ CallIoTrapped(c, pre, via, post, npc)
    \/ CallIoUntrapped(c, pre, via)

\* cb(&mut conn, Connected)
ConnectCb ==
    /\ pc = "start"
    /\ hist' = Append(hist, Connected)
    /\ pc' = "cb_Connected"
    /\ UNCHANGED <<logged_in, nick, static>>

\* mutant: `break` in place of `continue`, the loop ends on a line that does not parse
run_unparsed_break(raw) ==
    /\ hist' = hist \o <<ReadEntry(raw), Disconnected>>
    /\ pc' = "cb_Disconnected"
    /\ UNCHANGED <<logged_in, nick>>

\* Line::parse gave None: `continue`
run_unparsed(raw) ==
    /\ hist' = Append(hist, ReadEntry(raw))
    /\ UNCHANGED <<pc, logged_in, nick>>

\* mutant: the callback is given every parsed line
run_gate_always(conn) == TRUE

\* mutant: logged_in is tested before handle_line, as the line arrives
run_gate_before_dispatch(conn) == logged_in

\* if self.logged_in { cb(self, LineReceived(line)) }
run_gate(conn) == conn.logged_in

\* one turn of the loop of Conn::run on the line raw
RunLine(raw) ==
    /\ pc = "run"
    /\ Steps < MaxSteps
    /\ LastReadComplete
    /\ LET parsed == Line_parse(chomp(raw)) IN
       IF parsed = None
       THEN run_unparsed(raw)
       ELSE LET line == unwrap(parsed)
                c == handle_line(Conn, line)
            IN  Call(c, <<ReadEntry(raw)>>, "handle_line",
                     IF run_gate(c) THEN <<LineReceived(line)>> ELSE <<>>,
                     IF run_gate(c) THEN "cb_LineReceived" ELSE "run")
    /\ UNCHANGED static

\* mutant: connect returns at the end of the stream without cb(&mut conn, Disconnected)
RunEof_no_event ==
    /\ pc = "run"
    /\ pc' = "done"
    /\ UNCHANGED <<logged_in, nick, hist, static>>

\* self.tcp.eof(), or read_until returns None at the end of the stream:
\* the loop ends and connect gives Disconnected
RunEof ==
    /\ pc = "run"
    /\ hist' = Append(hist, Disconnected)
    /\ pc' = "cb_Disconnected"
    /\ UNCHANGED <<logged_in, nick, static>>

\* mutant: a read that fails is skipped (`None => continue`), the loop goes on
RunReadIoError_continue(trapped) ==
    /\ pc = "run"
    /\ Steps < MaxSteps
    /\ hist' = Append(hist, IoErrorEntry)
    /\ pc' = IF trapped THEN "run" ELSE "failed"
    /\ UNCHANGED <<logged_in, nick, static>>

\* the read raises io_error: trapped by the caller, read_until returns None;
\* with no handler the task fails
RunReadIoError(trapped) ==
    /\ pc = "run"
    /\ Steps < MaxSteps
    /\ IF trapped
       THEN /\ hist' = hist \o <<IoErrorEntry, Disconnected>>
            /\ pc' = "cb_Disconnected"
       ELSE /\ hist' = Append(hist, IoErrorEntry)
            /\ pc' = "failed"
    /\ UNCHANGED <<logged_in, nick, static>>

InCallback == pc \in {"cb_Connected", "cb_LineReceived", "cb_Disconnected"}

\* the callback calls conn.set_nick(n)
CbSetNick(n) ==
    /\ InCallback
    /\ Steps < MaxSteps
    /\ Call(set_nick(Conn, n), <<>>, "set_nick", <<>>, pc)
    /\ UNCHANGED static

\* the callback calls conn.send_command(cmd, args)
CbSendCommand(cmd, args) ==
    /\ InCallback
    /\ Steps < MaxSteps
    /\ Call(send_command(Conn, cmd, args), <<>>, "send_command", <<>>, pc)
    /\ UNCHANGED static

\* the callback calls conn.quit()
CbQuit ==
    /\ InCallback
    /\ Steps < MaxSteps
    /\ Call(quit(Conn), <<>>, "quit", <<>>, pc)
    /\ UNCHANGED static

\* the callback returns: into run, or from connect with Ok(())
CbReturn ==
    /\ InCallback
    /\ pc' = IF pc = "cb_Disconnected" THEN "done" ELSE "run"
    /\ UNCHANGED <<logged_in, nick, hist, static>>

Next ==
    \/ ConnectCb
    \/ \E raw \in InputLines : RunLine(raw)
    \/ RunEof
    \/ \E trapped \in BOOLEAN : RunReadIoError(trapped)
    \/ \E n \in CbSetNicks : CbSetNick(n)
    \/ \E ca \in CbCommands : CbSendCommand(ca[1], ca[2])
    \/ CbQuit
    \/ CbReturn

Spec == Init /\ [][Next]_vars

(***************************************************************************)
(* send_command as a function of its arguments: SpecSend draws a command   *)
(* and its args, SendApply gives the bytes send_command hands to write     *)
(***************************************************************************)
SendSlack == 25     \* args are made this much shorter and longer than the 510-byte region

\* n bytes that differ from their neighbours
Fill(n) == [i \in 1..n |-> 97 + (i % 26)]

str_chan == <<35, 99>>                              \* "#c"
str_bob == <<98, 111, 98>>                          \* "bob"
str_VERSION == <<86, 69, 82, 83, 73, 79, 78>>       \* "VERSION"

SendCommands ==
    {IRCCmd(str_NICK), IRCCmd(str_QUIT), IRCCmd(str_PONG), IRCCmd(Fill(BODY_LEN + 2)),
     IRCCode(4), IRCCode(433),
     IRCAction(str_chan), IRCAction(Fill(BODY_LEN - 10)),
     IRCCTCP(str_chan, str_VERSION), IRCCTCPReply(str_bob, str_PING),
     IRCCTCP(str_VERSION, str_bob), IRCCTCPReply(str_PING, str_chan)}

SendArgLens == {0, 1} \cup ((BODY_LEN - SendSlack)..(BODY_LEN + SendSlack))

SendInit ==
    /\ pc = "off" /\ logged_in = FALSE /\ nick = <<>> /\ hist = <<>> /\ opts_nick = <<>>
    /\ fn_pc = "in"
    /\ fn_in \in {[cmd |-> c, args |-> Fill(n)] : c \in SendCommands, n \in SendArgLens}
    /\ fn_out = <<>>

SendApply ==
    /\ fn_pc = "in"
    /\ fn_out' = send_command_bytes(fn_in.cmd, fn_in.args)
    /\ fn_pc' = "out"
    /\ UNCHANGED <<fn_in, session>>

SendNext == SendApply

SpecSend == SendInit /\ [][SendNext]_vars

(***************************************************************************)
(* Line::parse as a function of the raw line: SpecParse draws a line,      *)
(* ParseApply gives what Line::parse makes of it and, when it is a Line,   *)
(* what Line::to_raw makes of that Line (the steps of tests::parse_line)   *)
(***************************************************************************)
MaxRawLen == 4       \* every line of at most this many bytes of ParseAlphabet is drawn
MaxPayloadLen == 3   \* ... and every CTCP payload text of at most this many bytes

\* ' ', ':', 'a', '1', 0x01 and a byte >= 0x80
ParseAlphabet == {SP, COLON, 97, 49, SOH, 195}
\* 'A', ' ' and 0x01
PayloadAlphabet == {65, SP, SOH}

\* every byte string over A of at most n bytes
Strings(A, n) == UNION {[1..k -> A] : k \in 0..n}

\* the lines of tests::parse_line
\* ":sendak.freenode.net 001 asldfkj :Welcome to the freenode Internet Relay Chat Network asldfkj"
test_welcome ==
    <<58, 115, 101, 110, 100, 97, 107, 46, 102, 114, 101, 101, 110, 111, 100, 101, 46,
      110, 101, 116, 32, 48, 48, 49, 32, 97, 115, 108, 100, 102, 107, 106, 32, 58, 87,
      101, 108, 99, 111, 109, 101, 32, 116, 111, 32, 116, 104, 101, 32, 102, 114, 101,
      101, 110, 111, 100, 101, 32, 73, 110, 116, 101, 114, 110, 101, 116, 32, 82, 101,
      108, 97, 121, 32, 67, 104, 97, 116, 32, 78, 101, 116, 119, 111, 114, 107, 32, 97,
      115, 108, 100, 102, 107, 106>>
\* "004 asdf :This is a test"
test_004_args ==
    <<48, 48, 52, 32, 97, 115, 100, 102, 32, 58, 84, 104, 105, 115, 32, 105, 115, 32,
      97, 32, 116, 101, 115, 116>>
\* ":nick!user@host.com PRIVMSG #channel :Some message"
test_privmsg ==
    <<58, 110, 105, 99, 107, 33, 117, 115, 101, 114, 64, 104, 111, 115, 116, 46, 99,
      111, 109, 32, 80, 82, 73, 86, 77, 83, 71, 32, 35, 99, 104, 97, 110, 110, 101,
      108, 32, 58, 83, 111, 109, 101, 32, 109, 101, 115, 115, 97, 103, 101>>
\* " :sendak.freenode.net 001 asdf :Test"
test_leading_space ==
    <<32, 58, 115, 101, 110, 100, 97, 107, 46, 102, 114, 101, 101, 110, 111, 100, 101,
      46, 110, 101, 116, 32, 48, 48, 49, 32, 97, 115, 100, 102, 32, 58, 84, 101, 115,
      116>>
\* ":sendak  001 asdf :Test"
test_two_spaces ==
    <<58, 115, 101, 110, 100, 97, 107, 32, 32, 48, 48, 49, 32, 97, 115, 100, 102, 32,
      58, 84, 101, 115, 116>>
\* "004"
test_004 ==
    <<48, 48, 52>>
\* ":bob!user@host.com PRIVMSG #channel :\x01ACTION does some stuff"
test_action_open ==
    <<58, 98, 111, 98, 33, 117, 115, 101, 114, 64, 104, 111, 115, 116, 46, 99, 111,
      109, 32, 80, 82, 73, 86, 77, 83, 71, 32, 35, 99, 104, 97, 110, 110, 101, 108, 32,
      58, 1, 65, 67, 84, 73, 79, 78, 32, 100, 111, 101, 115, 32, 115, 111, 109, 101,
      32, 115, 116, 117, 102, 102>>
\* ":bob!user@host.com PRIVMSG #channel :\x01VERSION\x01"
test_version ==
    <<58, 98, 111, 98, 33, 117, 115, 101, 114, 64, 104, 111, 115, 116, 46, 99, 111,
      109, 32, 80, 82, 73, 86, 77, 83, 71, 32, 35, 99, 104, 97, 110, 110, 101, 108, 32,
      58, 1, 86, 69, 82, 83, 73, 79, 78, 1>>
\* ":bob NOTICE #frobnitz :\x01RESPONSE to whatever\x01"
test_reply ==
    <<58, 98, 111, 98, 32, 78, 79, 84, 73, 67, 69, 32, 35, 102, 114, 111, 98, 110, 105,
      116, 122, 32, 58, 1, 82, 69, 83, 80, 79, 78, 83, 69, 32, 116, 111, 32, 119, 104,
      97, 116, 101, 118, 101, 114, 1>>
\* ":bob f\xc3\xb6o"
test_non_ascii ==
    <<58, 98, 111, 98, 32, 102, 195, 182, 111>>
\* ":bob f23"
test_mixed ==
    <<58, 98, 111, 98, 32, 102, 50, 51>>

TestLines ==
    {test_welcome, test_004_args, test_privmsg, test_leading_space, test_two_spaces,
     test_004, test_action_open, test_version, test_reply, test_non_ascii, test_mixed}

str_001 == <<48, 48, 49>>                           \* "001"
str_frob == <<58, 102>>                             \* ":f", a destination starting with ':'
str_ACTION_text == <<65, 67, 84, 73, 79, 78, 32, 100, 111>>     \* "ACTION do"
str_VERSION_SOH == <<86, 69, 82, 83, 73, 79, 78, 1>>            \* "VERSION\x01"

\* [":" prefix " "] verb [" " dest] (" :" | " ") [0x01] text: PRIVMSG and NOTICE lines
\* with and without a CTCP frame, and the same shapes under other commands
FramedLines ==
    {pre \o verb \o mid \o sep \o open \o text :
        pre \in {<<>>, <<COLON>> \o str_bob \o <<SP>>},
        verb \in {str_PRIVMSG, str_NOTICE, str_PING, str_001},
        mid \in {<<>>, <<SP>> \o str_chan, <<SP>> \o str_chan \o <<SP>> \o str_bob,
                 <<SP>> \o str_frob},
        sep \in {<<SP, COLON>>, <<SP>>},
        open \in {<<>>, <<SOH>>},
        text \in Strings(PayloadAlphabet, MaxPayloadLen)
                 \cup {str_ACTION, str_ACTION \o <<SOH>>, str_ACTION_text,
                       str_ACTION_text \o <<SOH>>, str_VERSION, str_VERSION_SOH}}

ParseInputs == Strings(ParseAlphabet, MaxRawLen) \cup TestLines \cup FramedLines

ParseInit ==
    /\ pc = "off" /\ logged_in = FALSE /\ nick = <<>> /\ hist = <<>> /\ opts_nick = <<>>
    /\ fn_pc = "in"
    /\ fn_in \in ParseInputs
    /\ fn_out = <<>>

\* let line = Line::parse(v); ... let line = line.to_raw();
ParseApply ==
    /\ fn_pc = "in"
    /\ fn_out' = LET line == Line_parse(fn_in) IN
                 [line |-> line,
                  raw |-> IF line # None THEN Some(to_raw(unwrap(line))) ELSE None]
    /\ fn_pc' = "out"
    /\ UNCHANGED <<fn_in, session>>

ParseNext == ParseApply

SpecParse == ParseInit /\ [][ParseNext]_vars

(***************************************************************************)
(* Line::to_raw as a function of the Line: SpecToRaw draws a Line,         *)
(* ToRawApply gives its raw form and what Line::parse makes of that        *)
(***************************************************************************)
MaxArgLen == 2       \* every argument of at most this many bytes of ArgAlphabet is drawn

\* 'a', ' ', ':' and 0x01
ArgAlphabet == {97, SP, COLON, SOH}
ArgStrings == Strings(ArgAlphabet, MaxArgLen)
str_a == <<97>>                                     \* "a"

\* no argument, one, two and three, the arguments before the last of at most one byte
ArgLists ==
    {<<>>} \cup {<<x>> : x \in ArgStrings}
    \cup {<<x, y>> : x \in Strings(ArgAlphabet, 1), y \in ArgStrings}
    \cup {<<x, y, z>> : x, y, z \in Strings(ArgAlphabet, 1)}

\* the codes a 3-digit command can carry
Codes == 0..999

ToRawCommands ==
    {IRCCmd(str_PING), IRCCmd(str_PRIVMSG), IRCCode(4), IRCAction(str_chan),
     IRCCTCP(str_VERSION, str_bob), IRCCTCPReply(str_PING, str_bob)}

ToRawInputs ==
    {Line(prefix, command, args) :
        prefix \in {None, Some(str_bob)}, command \in ToRawCommands, args \in ArgLists}
    \cup {Line(prefix, IRCCode(c), args) :
            prefix \in {None, Some(str_bob)}, c \in Codes, args \in {<<>>, <<str_a>>}}

ToRawInit ==
    /\ pc = "off" /\ logged_in = FALSE /\ nick = <<>> /\ hist = <<>> /\ opts_nick = <<>>
    /\ fn_pc = "in"
    /\ fn_in \in ToRawInputs
    /\ fn_out = <<>>

ToRawApply ==
    /\ fn_pc = "in"
    /\ fn_out' = LET raw == to_raw(fn_in) IN [raw |-> raw, line |-> Line_parse(raw)]
    /\ fn_pc' = "out"
    /\ UNCHANGED <<fn_in, session>>

ToRawNext == ToRawApply

SpecToRaw == ToRawInit /\ [][ToRawNext]_vars

(***************************************************************************)
(* User::parse as a function of the byte string: SpecUser draws it,        *)
(* UserApply gives the User and the User rebuilt from its parts by         *)
(* User::new                                                               *)
(***************************************************************************)
MaxUserLen == 5      \* every string of at most this many bytes of UserAlphabet is drawn

\* '!', '@' and 'n'
UserAlphabet == {BANG, AT, 110}

\* the strings of tests::test_user_parse
user_bob == <<98, 111, 98, 33, 102, 114, 101, 100, 64, 106, 111, 101, 46, 99, 111, 109>>   \* "bob!fred@joe.com"
user_frob == <<102, 114, 111, 98, 64, 119, 104, 97, 116, 101, 118, 101, 114>>   \* "frob@whatever"
user_foo == <<102, 111, 111, 33, 98, 97, 122>>   \* "foo!baz"
user_frobnitz == <<102, 114, 111, 98, 110, 105, 116, 122>>   \* "frobnitz"

UserInputs == Strings(UserAlphabet, MaxUserLen) \cup {user_bob, user_frob, user_foo, user_frobnitz}

UserInit ==
    /\ pc = "off" /\ logged_in = FALSE /\ nick = <<>> /\ hist = <<>> /\ opts_nick = <<>>
    /\ fn_pc = "in"
    /\ fn_in \in UserInputs
    /\ fn_out = <<>>

UserApply ==
    /\ fn_pc = "in"
    /\ fn_out' = LET u == User_parse(fn_in) IN
                 [u |-> u, again |-> User_new(User_nick(u), User_user(u), User_host(u))]
    /\ fn_pc' = "out"
    /\ UNCHANGED <<fn_in, session>>

UserNext == UserApply

SpecUser == UserInit /\ [][UserNext]_vars

(***************************************************************************)
(* Vocabulary of the properties                                            *)
(***************************************************************************)
Last(h) == h[Len(h)]
IsEvent(e) == e.t \in {"Connected", "LineReceived", "Disconnected"}
Events == SelectSeq(hist, IsEvent)

\* the Line a read entry parses to (None if it does not parse)
ParsedOf(e) == e.l
ReadOf(e, command) ==
    e.t = "read" /\ ParsedOf(e) # None /\ unwrap(ParsedOf(e)).command = command
IsWelcomeRead(e) == ReadOf(e, IRCCode(1))
\* a welcome line has been read among the first n entries of hist
WelcomeWithin(n) == \E j \in 1..n : IsWelcomeRead(hist[j])

\* this step read a line: the entry of the line
StepRead == Len(hist') > Len(hist) /\ hist'[Len(hist) + 1].t = "read"
StepLine == hist'[Len(hist) + 1]

(***************************************************************************)
(* C1. Handshake gating: every LineReceived event given to the callback    *)
(* comes after the read of a line whose command is Numeric(1); a line      *)
(* processed before that, however well-formed, is not delivered.           *)
(***************************************************************************)
Thm_C1_HandshakeGating ==
    \A i \in 1..Len(hist) :
        hist[i].t = "LineReceived" => WelcomeWithin(i - 1)

\* an unrelated, well-formed line came first and was not delivered; the welcome
\* line after it was
Wit_C1_GatedThenDelivered ==
    /\ Len(hist) >= 4
    /\ hist[2] = ReadEntry(line_msg)
    /\ IsWelcomeRead(hist[3])
    /\ hist[4].t = "LineReceived"

C3_Step ==
    /\ logged_in => logged_in'
    /\ (~logged_in /\ logged_in') => (StepRead /\ IsWelcomeRead(StepLine))

Thm_C3_LoginMonotonic == (~logged_in) /\ [][C3_Step]_vars

\* after login the callback has called a Conn method and a further line,
\* a rejection, has been handled: still logged in
Wit_C3_StillLoggedIn ==
    /\ logged_in
    /\ CallbackCalls > 0
    /\ \E i \in 1..Len(hist) :
           /\ ReadOf(hist[i], IRCCode(433))
           /\ WelcomeWithin(i - 1)

(***************************************************************************)
(* C8. PING reply in any login state: the read of a line whose command is  *)
(* Named("PING") is followed at once by exactly one write, "PONG" and, if  *)
(* the line has arguments, a space and the arguments joined by single      *)
(* spaces; the dispatch writes a PONG for nothing else, so the replies     *)
(* come in the order of the PING lines.                                    *)
(***************************************************************************)
RECURSIVE JoinedBySpaces(_)
JoinedBySpaces(args) ==
    IF args = <<>> THEN <<>>
    ELSE IF Len(args) = 1 THEN args[1]
    ELSE JoinedBySpaces(SubSeq(args, 1, Len(args) - 1)) \o <<SP>> \o Last(args)

PongFor(line) ==
    LET j == JoinedBySpaces(line.args) IN
    str_PONG \o (IF j = <<>> THEN <<>> ELSE <<SP>> \o j) \o str_CRLF

IsPingRead(e) == ReadOf(e, IRCCmd(str_PING))

Thm_C8_PingPong ==
    /\ \A i \in 1..Len(hist) :
           IsPingRead(hist[i]) =>
               /\ i + 1 <= Len(hist)
               /\ hist[i + 1] = WriteEntry(PongFor(unwrap(ParsedOf(hist[i]))), "handle_line")
               /\ i + 2 <= Len(hist) => hist[i + 2].t # "write"
    /\ \A i \in 1..Len(hist) :
           (hist[i].t = "write" /\ hist[i].via = "handle_line" /\ starts_with(hist[i].b, str_PONG))
               => (i > 1 /\ IsPingRead(hist[i - 1]))

str_PONG_a_b_c == <<80, 79, 78, 71, 32, 97, 32, 98, 32, 99, 13, 10>>   \* "PONG a b c\r\n"
str_PONG_CRLF == <<80, 79, 78, 71, 13, 10>>                            \* "PONG\r\n"

\* before login, ":s PING a :b c" then "PING": "PONG a b c" then "PONG", in that order
Wit_C8_TwoPongsInOrder ==
    /\ ~logged_in
    /\ \E i \in 1..Len(hist) :
           /\ i + 3 <= Len(hist)
           /\ hist[i] = ReadEntry(line_ping)
           /\ hist[i + 1] = WriteEntry(str_PONG_a_b_c, "handle_line")
           /\ hist[i + 2] = ReadEntry(line_ping0)
           /\ hist[i + 3] = WriteEntry(str_PONG_CRLF, "handle_line")

(***************************************************************************)
(* C9. An unparseable line is recovered locally: a step that reads a line  *)
(* for which Line::parse returns None (after chomp) adds nothing but the   *)
(* read to the history (no event, no write) and leaves logged_in, the      *)
(* nickname and the loop's position unchanged, so the loop goes on as if   *)
(* the line had not been received.                                         *)
(***************************************************************************)
C9_Step ==
    (StepRead /\ ParsedOf(StepLine) = None) =>
        /\ hist' = Append(hist, StepLine)
        /\ pc = "run" /\ pc' = "run"
        /\ logged_in' = logged_in
        /\ nick' = nick

Thm_C9_UnparseableSkipped == [][C9_Step]_vars

\* the line after the bad one is processed: it logs the session in and is delivered
Wit_C9_ContinuesAfterBadLine ==
    \E i \in 1..Len(hist) :
        /\ i + 2 <= Len(hist)
        /\ hist[i] = ReadEntry(line_bad)
        /\ hist[i + 1] = ReadEntry(line_welcome)
        /\ hist[i + 2].t = "LineReceived"
        /\ logged_in

(***************************************************************************)
(* C10 as claimed: once the transport has raised an I/O failure (on a read *)
(* or on a write) the loop has ended cleanly and Disconnected has been     *)
(* delivered (connect goes on to return Ok(())).                           *)
(***************************************************************************)
Orig_C10_IoFailureLikeEof ==
    Count("io_error") > 0 =>
        (pc \in {"cb_Disconnected", "done"} /\ Last(Events) = Disconnected)

(***************************************************************************)
(* C10 as amended: a read failure whose io_error condition is trapped      *)
(* ends the loop like end-of-stream: Disconnected is the next thing that   *)
(* happens, and connect returns only after it. An io_error with no handler *)
(* fails the task at that point (nothing is delivered or written after     *)
(* it, connect does not return); a trapped write failure does not end the  *)
(* loop.                                                                   *)
(***************************************************************************)
IsWriteFailure(i) == hist[i].t = "io_error" /\ i > 1 /\ hist[i - 1].t = "write"
IsReadFailure(i) == hist[i].t = "io_error" /\ ~(i > 1 /\ hist[i - 1].t = "write")

C10_Inv ==
    /\ \A i \in 1..Len(hist) :
           IsReadFailure(i) =>
               \/ i = Len(hist) /\ pc = "failed"
               \/ i < Len(hist) /\ hist[i + 1] = Disconnected
    /\ pc = "failed" => Last(hist).t = "io_error"
    /\ pc = "done" => Last(Events) = Disconnected

\* a step in which a write fails
StepWriteFailure ==
    \E k \in (Len(hist) + 2)..Len(hist') :
        hist'[k].t = "io_error" /\ hist'[k - 1].t = "write"

C10_Step ==
    /\ pc = "failed" => UNCHANGED vars
    /\ StepWriteFailure =>
           \/ pc' = "failed"
           \/ /\ pc' \in {"run", "cb_LineReceived", pc}
              /\ \A k \in (Len(hist) + 1)..Len(hist') : hist'[k] # Disconnected

Thm_C10_IoFailure == []C10_Inv /\ [][C10_Step]_vars

\* a trapped read failure ended the loop and connect returned
Wit_C10_TrappedReadFailure ==
    /\ pc = "done"
    /\ \E i \in 1..Len(hist) :
           IsReadFailure(i) /\ i < Len(hist) /\ hist[i + 1] = Disconnected

(***************************************************************************)
(* C4. Outbound size bound with silent truncation: what send_command       *)
(* writes is body ++ "\r\n", body being the first min(510, n) bytes of the *)
(* untruncated rendering of n bytes (the closing 0x01 of a CTCP command    *)
(* included); so no write is longer than 512 bytes, an over-long command   *)
(* gives exactly 512 bytes, and there is always a result (no error).       *)
(***************************************************************************)
RECURSIVE Concat(_)
Concat(ps) == IF ps = <<>> THEN <<>> ELSE ps[1] \o Concat(Tail(ps))

\* the rendering of the command, not truncated
Rendering(cmd, args) == Concat(send_command_pieces(cmd, args))

Thm_C4_SendTruncates ==
    fn_pc = "out" =>
        LET r == Rendering(fn_in.cmd, fn_in.args)
            n == Len(r)
            body == [i \in 1..(IF n < 510 THEN n ELSE 510) |-> r[i]]
        IN  /\ fn_out = body \o str_CRLF
            /\ Len(fn_out) <= 512
            /\ n > 510 => Len(fn_out) = 512

\* a CTCP command one byte too long: 512 bytes are written, the closing 0x01 is cut
Wit_C4_CtcpCut ==
    /\ fn_pc = "out"
    /\ is_ctcp(fn_in.cmd)
    /\ Len(Rendering(fn_in.cmd, fn_in.args)) = 511
    /\ Len(fn_out) = 512
    /\ fn_out[510] # SOH
    /\ SubSeq(fn_out, 511, 512) = str_CRLF

(***************************************************************************)
(* The nickname the session is to hold after the first n entries of hist:  *)
(* Options.nick, then the value of each set_nick call (its NICK command    *)
(* carries it) and the first argument of the welcome line that logs in.    *)
(***************************************************************************)
IsSetNickWrite(e) == IsNickWrite(e) /\ e.via \in {"set_nick", "handle_line"}
IsLoginWithNick(j) ==
    /\ IsWelcomeRead(hist[j])
    /\ ~WelcomeWithin(j - 1)
    /\ unwrap(ParsedOf(hist[j])).args # <<>>

NickSetters(n) == {j \in 1..n : IsSetNickWrite(hist[j]) \/ IsLoginWithNick(j)}
Max(S) == CHOOSE x \in S : \A y \in S : y <= x
Min(S) == CHOOSE x \in S : \A y \in S : x <= y
NickSetBy(j) ==
    IF hist[j].t = "write" THEN NickCarried(hist[j].b)
    ELSE unwrap(ParsedOf(hist[j])).args[1]
ExpectedNickAt(n) ==
    IF NickSetters(n) = {} THEN opts_nick ELSE NickSetBy(Max(NickSetters(n)))

(***************************************************************************)
(* C5 as claimed: nick() is whichever is more recent of the nickname       *)
(* carried by the most recent NICK command written to the transport (by    *)
(* set_nick, by the nick mutation or by send_command) and the first        *)
(* argument of the welcome line that logged the session in.                *)
(***************************************************************************)
C5_ClaimedSetters == {j \in 1..Len(hist) : IsNickWrite(hist[j]) \/ IsLoginWithNick(j)}

Orig_C5_NickIsLastSentOrWelcomed ==
    (pc # "failed" /\ C5_ClaimedSetters # {}) => nick = NickSetBy(Max(C5_ClaimedSetters))

(***************************************************************************)
(* C5 as amended: nick() is whichever is most recent of Options.nick, the  *)
(* nickname given to the most recent set_nick call (by the callback or by  *)
(* the nick mutation; its NICK command carries it) and the first argument  *)
(* of the welcome line that logged the session in, if it has one. A NICK   *)
(* command written through send_command directly does not change nick().  *)
(***************************************************************************)
Thm_C5_NickInvariant ==
    pc # "failed" => nick = ExpectedNickAt(Len(hist))

\* the welcome line named the session "bob", then the callback wrote NICK zed
\* through send_command and called set_nick("c_")
Wit_C5_SetNickAfterWelcome ==
    /\ pc # "failed"
    /\ nick = nick_c_
    /\ WelcomeWithin(Len(hist))
    /\ \E i \in 1..Len(hist) : IsNickWrite(hist[i]) /\ hist[i].via = "set_nick"

(***************************************************************************)
(* C6. Nick-mutation step: a step that, not logged in, reads a line with   *)
(* command Numeric 433, 432, 436 or 437 takes the nickname from the line's *)
(* first argument, or the session's nickname if the line has none; if it   *)
(* has a byte other than '_' the step writes one NICK command, carrying    *)
(* the nickname with its last such byte (and only that byte) replaced by   *)
(* '_', and the session's nickname becomes that value; otherwise the step  *)
(* writes QUIT, no NICK, and leaves the nickname unchanged.                *)
(***************************************************************************)
RejectionCodes == {IRCCode(433), IRCCode(432), IRCCode(436), IRCCode(437)}
IsRejection(e) ==
    e.t = "read" /\ ParsedOf(e) # None /\ unwrap(ParsedOf(e)).command \in RejectionCodes

\* v is n with its last byte other than '_' replaced by '_'
LastNonUnderscoreReplaced(n, v) ==
    /\ Len(v) = Len(n)
    /\ \E i \in 1..Len(n) :
           /\ n[i] # UNDERSCORE /\ v[i] = UNDERSCORE
           /\ \A j \in 1..Len(n) : j # i => v[j] = n[j]
           /\ \A j \in (i + 1)..Len(n) : n[j] = UNDERSCORE

C6_Step ==
    (StepRead /\ ~logged_in /\ IsRejection(StepLine)) =>
        LET args == unwrap(ParsedOf(StepLine)).args
            n == IF args # <<>> THEN args[1] ELSE nick
            w == hist'[Len(hist) + 2]
        IN  /\ Len(hist') >= Len(hist) + 2
            /\ w.t = "write"
            /\ \A k \in (Len(hist) + 3)..Len(hist') : hist'[k].t # "write"
            /\ IF \E i \in 1..Len(n) : n[i] # UNDERSCORE
               THEN /\ w.b = str_NICK \o <<SP>> \o NickCarried(w.b) \o str_CRLF
                    /\ LastNonUnderscoreReplaced(n, NickCarried(w.b))
                    /\ pc' # "failed" => nick' = NickCarried(w.b)
               ELSE /\ w.b = str_QUIT \o str_CRLF
                    /\ nick' = nick

Thm_C6_NickMutationStep == [][C6_Step]_vars

str_NICK_a_ == <<78, 73, 67, 75, 32, 97, 95, 13, 10>>   \* "NICK a_\r\n"
str_QUIT_CRLF == <<81, 85, 73, 84, 13, 10>>             \* "QUIT\r\n"

\* "ab" was rejected by a line without argument: NICK a_; then "436 __": QUIT
Wit_C6_NickThenQuit ==
    /\ Len(hist) >= 5
    /\ opts_nick = nick_ab
    /\ hist[2] = ReadEntry(line_433)
    /\ hist[3] = WriteEntry(str_NICK_a_, "handle_line")
    /\ hist[4] = ReadEntry(line_436)
    /\ hist[5] = WriteEntry(str_QUIT_CRLF, "handle_line")
    /\ nick = nick_a_

(***************************************************************************)
(* C7. Nick-mutation termination: if every rejection read before login     *)
(* carries no argument or names the nickname the session sent last (or     *)
(* holds), then, k being the number of bytes other than '_' of the         *)
(* nickname the first rejection starts from, the m-th rejection writes     *)
(* NICK with the last m such bytes turned into '_' for m <= k, and QUIT    *)
(* for m > k: at most k NICK commands, then QUIT instead of a further NICK.*)
(***************************************************************************)
PreLoginRejections == {i \in 1..Len(hist) : IsRejection(hist[i]) /\ ~WelcomeWithin(i - 1)}
RejectionArgs(i) == unwrap(ParsedOf(hist[i])).args
NickWritesBefore(i) == {j \in 1..(i - 1) : IsNickWrite(hist[j])}
Cooperating(i) ==
    \/ RejectionArgs(i) = <<>>
    \/ RejectionArgs(i)[1] = ExpectedNickAt(i - 1)
    \/ /\ NickWritesBefore(i) # {}
       /\ RejectionArgs(i)[1] = NickCarried(hist[Max(NickWritesBefore(i))].b)

StartingNick ==
    LET i == Min(PreLoginRejections) IN
    IF RejectionArgs(i) # <<>> THEN RejectionArgs(i)[1] ELSE ExpectedNickAt(i - 1)

NonUnderscores(n) == Cardinality({p \in 1..Len(n) : n[p] # UNDERSCORE})
\* n with its last m bytes other than '_' turned into '_'
Underscored(n, m) ==
    [p \in 1..Len(n) |->
        IF Cardinality({q \in p..Len(n) : n[q] # UNDERSCORE}) <= m THEN UNDERSCORE ELSE n[p]]
Rank(i) == Cardinality({j \in PreLoginRejections : j <= i})

Thm_C7_NickMutationTerminates ==
    (PreLoginRejections # {} /\ \A i \in PreLoginRejections : Cooperating(i)) =>
        \A i \in PreLoginRejections :
            /\ i + 1 <= Len(hist)
            /\ hist[i + 1] =
                   WriteEntry(IF Rank(i) <= NonUnderscores(StartingNick)
                              THEN str_NICK \o <<SP>> \o Underscored(StartingNick, Rank(i))
                                       \o str_CRLF
                              ELSE str_QUIT \o str_CRLF,
                              "handle_line")

\* k rejections have each written a NICK and one more has written QUIT
Wit_C7_QuitAfterKNicks ==
    /\ PreLoginRejections # {}
    /\ \A i \in PreLoginRejections : Cooperating(i)
    /\ NonUnderscores(StartingNick) >= 1
    /\ Cardinality(PreLoginRejections) = NonUnderscores(StartingNick) + 1
    /\ hist[Max(PreLoginRejections) + 1] = WriteEntry(str_QUIT_CRLF, "handle_line")

(***************************************************************************)
(* C11. send_command and Line::to_raw agree on CTCP rendering: for every   *)
(* CTCP command c and payload a whose rendering fits in 510 bytes, what    *)
(* send_command(c, a) writes is to_raw(Line{None, c, [a]}) ++ "\r\n"       *)
(* (args [] when a is empty): the destination follows PRIVMSG/NOTICE and   *)
(* the keyword follows the opening 0x01.                                   *)
(***************************************************************************)
LineOfSend(cmd, args) == Line(None, cmd, IF args = <<>> THEN <<>> ELSE <<args>>)

Orig_C11_SendAgreesWithToRaw ==
    (fn_pc = "out" /\ is_ctcp(fn_in.cmd)
        /\ Len(to_raw(LineOfSend(fn_in.cmd, fn_in.args))) <= 510)
    => fn_out = to_raw(LineOfSend(fn_in.cmd, fn_in.args)) \o str_CRLF

(***************************************************************************)
(* C12. send_command renders a Numeric command as Line::to_raw does: for   *)
(* every code in 0..999 the bytes written start with exactly 3 ASCII       *)
(* digits, zero-padded (Numeric(4) is written as "004").                   *)
(***************************************************************************)
ThreeDigits(c) == <<48 + (c \div 100), 48 + ((c \div 10) % 10), 48 + (c % 10)>>

Orig_C12_SendPadsNumeric ==
    (fn_pc = "out" /\ fn_in.cmd.tag = "IRCCode" /\ fn_in.cmd.code \in 0..999)
    => /\ Len(fn_out) >= 3
       /\ SubSeq(fn_out, 1, 3) = ThreeDigits(fn_in.cmd.code)
       /\ ~is_digit(fn_out[4])

(***************************************************************************)
(* The parts of a raw line, read off the wire format                       *)
(*   [":" prefix " "] command [" " arg]*                                   *)
(***************************************************************************)
HasSpace(v) == \E i \in 1..Len(v) : v[i] = SP
FirstSpace(v) == CHOOSE i \in 1..Len(v) : v[i] = SP /\ \A j \in 1..(i - 1) : v[j] # SP
UpToSpace(v) == IF HasSpace(v) THEN SubSeq(v, 1, FirstSpace(v) - 1) ELSE v
AfterSpace(v) == IF HasSpace(v) THEN SubSeq(v, FirstSpace(v) + 1, Len(v)) ELSE <<>>

StartsWithColon(v) == v # <<>> /\ v[1] = COLON
\* a line that starts with ':' has a prefix only if a space ends it
PrefixEnds(v) == StartsWithColon(v) => HasSpace(v)
AfterPrefix(v) == IF StartsWithColon(v) THEN AfterSpace(v) ELSE v
CommandToken(v) == UpToSpace(AfterPrefix(v))
AfterCommand(v) == AfterSpace(AfterPrefix(v))

(***************************************************************************)
(* C13. Line::parse returns None whenever the command token is empty: the  *)
(* empty line, a line that is only a prefix followed by a space, a line    *)
(* where a space follows the prefix's separating space or starts the line. *)
(***************************************************************************)
Orig_C13_EmptyCommandRejected ==
    (fn_pc = "out" /\ PrefixEnds(fn_in) /\ CommandToken(fn_in) = <<>>)
    => fn_out.line = None

(***************************************************************************)
(* C14. Round trip from Line: for every well-formed Line (optional prefix  *)
(* without spaces; command Named with a non-empty all-ASCII-letters verb   *)
(* or Numeric in 0..999; only the last argument may contain spaces) whose  *)
(* last argument does not start with 0x01, Line::parse(line.to_raw()) is   *)
(* Some(l) with l equal to line in prefix, command and args.               *)
(***************************************************************************)
IsLetter(b) == (b >= 65 /\ b <= 90) \/ (b >= 97 /\ b <= 122)

WellFormed(line) ==
    /\ line.prefix # None => ~HasSpace(unwrap(line.prefix))
    /\ \/ /\ line.command.tag = "IRCCmd"
          /\ line.command.f0 # <<>>
          /\ \A i \in 1..Len(line.command.f0) : IsLetter(line.command.f0[i])
       \/ /\ line.command.tag = "IRCCode"
          /\ line.command.code \in 0..999
    /\ \A i \in 1..(Len(line.args) - 1) : ~HasSpace(line.args[i])

LastStartsWithSoh(line) ==
    line.args # <<>> /\ line.args[Len(line.args)] # <<>> /\ line.args[Len(line.args)][1] = SOH

Orig_C14_RoundTripFromLine ==
    (fn_pc = "out" /\ WellFormed(fn_in) /\ ~LastStartsWithSoh(fn_in))
    => /\ fn_out.line # None
       /\ unwrap(fn_out.line).prefix = fn_in.prefix
       /\ unwrap(fn_out.line).command = fn_in.command
       /\ unwrap(fn_out.line).args = fn_in.args

(***************************************************************************)
(* C15. CTCP re-serialization: for every raw line of the shape             *)
(*   [":" prefix " "] ("PRIVMSG" | "NOTICE") " " dest " :" 0x01 keyword    *)
(*   [" " body] [0x01]                                                     *)
(* with dest non-empty, without spaces and not starting with ':', and      *)
(* keyword without spaces, Line::parse succeeds and to_raw of the result   *)
(* is the input itself when the closing 0x01 is present, and the input     *)
(* followed by one 0x01 when it is missing.                                *)
(***************************************************************************)
\* what follows " :" 0x01 in a line of that shape; keyword [" " body] [0x01] is any
\* byte string, the keyword being what precedes its first space
IsCtcpShape(v) ==
    /\ PrefixEnds(v)
    /\ CommandToken(v) \in {str_PRIVMSG, str_NOTICE}
    /\ LET r == AfterCommand(v)
           dest == UpToSpace(r)
           t == AfterSpace(r)
       IN  /\ HasSpace(r)
           /\ dest # <<>> /\ dest[1] # COLON
           /\ Len(t) >= 2 /\ t[1] = COLON /\ t[2] = SOH

\* the closing 0x01 is the line's last byte, the opening one apart
ClosingPresent(v) == LET t == AfterSpace(AfterCommand(v)) IN Len(t) > 2 /\ t[Len(t)] = SOH

Thm_C15_CtcpReserialized ==
    (fn_pc = "out" /\ IsCtcpShape(fn_in))
    => /\ fn_out.line # None
       /\ fn_out.raw = Some(IF ClosingPresent(fn_in) THEN fn_in ELSE fn_in \o <<SOH>>)

\* the two CTCP lines of tests::parse_line, with and without the closing 0x01
Wit_C15_ClosingAdded ==
    /\ fn_pc = "out"
    /\ fn_in = test_action_open
    /\ IsCtcpShape(fn_in) /\ ~ClosingPresent(fn_in)
    /\ fn_out.raw = Some(test_action_open \o <<SOH>>)

(***************************************************************************)
(* C16. CTCP detection and re-tagging in Line::parse: a line becomes a     *)
(* CTCP variant if and only if its command token is PRIVMSG or NOTICE, it  *)
(* has at least 2 arguments and its final argument starts with 0x01; then  *)
(* the destination is the first argument, the keyword is the payload up to *)
(* its first space, the command is CtcpAction(dest) for PRIVMSG with       *)
(* keyword ACTION, CtcpQuery(keyword, dest) for PRIVMSG with another       *)
(* keyword, CtcpReply(keyword, dest) for NOTICE, and args is [body] when   *)
(* the payload has a space and empty otherwise.                            *)
(***************************************************************************)
\* the arguments of the wire format: split at spaces, a token that starts with ':'
\* being the rest of the line
RECURSIVE WireArgs(_)
WireArgs(v) ==
    IF v = <<>> THEN <<>>
    ELSE IF v[1] = COLON THEN <<SubSeq(v, 2, Len(v))>>
    ELSE IF ~HasSpace(v) THEN <<v>>
    ELSE <<UpToSpace(v)>> \o WireArgs(AfterSpace(v))

\* the final argument without its opening 0x01 and, if there is one, its closing 0x01
Payload(last) ==
    LET t == SubSeq(last, 2, Len(last)) IN
    IF t # <<>> /\ t[Len(t)] = SOH THEN SubSeq(t, 1, Len(t) - 1) ELSE t

IsCtcpLine(v) ==
    LET a == WireArgs(AfterCommand(v)) IN
    /\ CommandToken(v) \in {str_PRIVMSG, str_NOTICE}
    /\ Len(a) >= 2
    /\ a[Len(a)] # <<>> /\ a[Len(a)][1] = SOH

Thm_C16_CtcpRetagging ==
    (fn_pc = "out" /\ fn_out.line # None)
    => LET l == unwrap(fn_out.line)
           a == WireArgs(AfterCommand(fn_in))
           payload == Payload(a[Len(a)])
           keyword == UpToSpace(payload)
           dest == a[1]
       IN  /\ l.command.tag \in {"IRCAction", "IRCCTCP", "IRCCTCPReply"} <=> IsCtcpLine(fn_in)
           /\ IsCtcpLine(fn_in) =>
                /\ l.command =
                     IF CommandToken(fn_in) = str_NOTICE
                     THEN [tag |-> "IRCCTCPReply", f0 |-> keyword, f1 |-> dest, code |-> 0]
                     ELSE IF keyword = str_ACTION
                     THEN [tag |-> "IRCAction", f0 |-> dest, f1 |-> <<>>, code |-> 0]
                     ELSE [tag |-> "IRCCTCP", f0 |-> keyword, f1 |-> dest, code |-> 0]
                /\ l.args = IF HasSpace(payload) THEN <<AfterSpace(payload)>> ELSE <<>>
                /\ Len(l.args) <= 1

\* tests::parse_line: "NOTICE #frobnitz :\x01RESPONSE to whatever\x01"
Wit_C16_ReplyRetagged ==
    /\ fn_pc = "out"
    /\ fn_in = test_reply
    /\ IsCtcpLine(fn_in)
    /\ fn_out.line # None
    /\ unwrap(fn_out.line).command.tag = "IRCCTCPReply"
    /\ Len(unwrap(fn_out.line).command.f0) = 8
    /\ Len(unwrap(fn_out.line).args) = 1

(***************************************************************************)
(* C17. Trailing-argument colon rule of Line::to_raw: for every non-CTCP   *)
(* Line with at least one argument, all arguments but the last are written *)
(* as they are, each preceded by one space, and the last argument is       *)
(* written with a leading ':' if and only if it contains a space byte.     *)
(***************************************************************************)
RECURSIVE EachAfterSpace(_)
EachAfterSpace(args) ==
    IF args = <<>> THEN <<>> ELSE <<SP>> \o args[1] \o EachAfterSpace(Tail(args))

\* the prefix and the command of a line that is not CTCP, as written
PlainHead(line) ==
    (IF line.prefix # None THEN <<COLON>> \o unwrap(line.prefix) \o <<SP>> ELSE <<>>)
    \o (IF line.command.tag = "IRCCmd" THEN line.command.f0
        ELSE ThreeDigits(line.command.code))

Thm_C17_TrailingColonRule ==
    (fn_pc = "out" /\ fn_in.command.tag \in {"IRCCmd", "IRCCode"} /\ fn_in.args # <<>>)
    => LET n == Len(fn_in.args)
           last == fn_in.args[n]
       IN  fn_out.raw = PlainHead(fn_in)
                        \o EachAfterSpace(SubSeq(fn_in.args, 1, n - 1))
                        \o <<SP>> \o (IF HasSpace(last) THEN <<COLON>> ELSE <<>>) \o last

str_PING_a_colon_sp_a == <<80, 73, 78, 71, 32, 97, 32, 58, 32, 97>>   \* "PING a : a"

\* args ["a", " a"]: the first bare, the last with its ':'
Wit_C17_ColonBeforeSpaced ==
    /\ fn_pc = "out"
    /\ fn_in = Line(None, IRCCmd(str_PING), <<str_a, <<SP, 97>>>>)
    /\ fn_out.raw = str_PING_a_colon_sp_a

(***************************************************************************)
(* C18. Numeric padding of Line::to_raw: for every code in 0..999 the      *)
(* command Numeric(code) is written as exactly 3 ASCII digits, zero-padded *)
(* on the left (Numeric(4) as "004"), and parse of those 3 digits gives    *)
(* back Numeric(code).                                                     *)
(***************************************************************************)
Thm_C18_NumericPadding ==
    (fn_pc = "out" /\ fn_in.command.tag = "IRCCode" /\ fn_in.command.code \in 0..999)
    => LET k == IF fn_in.prefix # None THEN Len(unwrap(fn_in.prefix)) + 2 ELSE 0
           digits == SubSeq(fn_out.raw, k + 1, k + 3)
       IN  /\ Len(fn_out.raw) >= k + 3
           /\ digits = ThreeDigits(fn_in.command.code)
           /\ Len(fn_out.raw) > k + 3 => fn_out.raw[k + 4] = SP
           /\ Line_parse(digits) = Some(Line(None, fn_in.command, <<>>))

str_004 == <<48, 48, 52>>                           \* "004"

Wit_C18_FourIs004 ==
    /\ fn_pc = "out"
    /\ fn_in = Line(None, IRCCode(4), <<>>)
    /\ fn_out.raw = str_004
    /\ fn_out.line = Some(fn_in)

(***************************************************************************)
(* C19. Rejection by command shape: Line::parse returns None for every     *)
(* line whose non-empty command token is neither exactly three ASCII       *)
(* digits nor made only of ASCII letters, and for every line that starts   *)
(* with a space before the prefix colon.                                   *)
(***************************************************************************)
IsThreeDigits(tok) == Len(tok) = 3 /\ \A i \in 1..3 : tok[i] >= 48 /\ tok[i] <= 57
AllLetters(tok) == \A i \in 1..Len(tok) : IsLetter(tok[i])

BadCommandShape(v) ==
    /\ PrefixEnds(v)
    /\ CommandToken(v) # <<>>
    /\ ~IsThreeDigits(CommandToken(v))
    /\ ~AllLetters(CommandToken(v))

Thm_C19_RejectedByShape ==
    (fn_pc = "out" /\ (BadCommandShape(fn_in) \/ (fn_in # <<>> /\ fn_in[1] = SP)))
    => fn_out.line = None

\* tests::parse_line: ":bob f23" is None
Wit_C19_MixedTokenRejected ==
    /\ fn_pc = "out"
    /\ fn_in = test_mixed
    /\ BadCommandShape(fn_in)
    /\ fn_out.line = None

(***************************************************************************)
(* C20. User decomposition: for every byte string v, u = User::parse(v)    *)
(* has u.raw() = v = u.nick() ++ ("!" ++ user when u.user() is Some(user)) *)
(* ++ ("@" ++ host when u.host() is Some(host)), where nick ends at the    *)
(* first '!' or '@', user is present exactly when a '!' occurs before the  *)
(* first '@', and host is present exactly when an '@' occurs; hence        *)
(* User::new(u.nick(), u.user(), u.host()) equals u.                       *)
(***************************************************************************)
\* the 1-based positions of '!' and '@' in v
Marks(v) == {i \in 1..Len(v) : v[i] = 33 \/ v[i] = 64}
Ats(v) == {i \in 1..Len(v) : v[i] = 64}
BangBeforeFirstAt(v) == \E i \in 1..Len(v) : v[i] = 33 /\ \A j \in 1..(i - 1) : v[j] # 64

Thm_C20_UserDecomposition ==
    fn_pc = "out" =>
        LET u == fn_out.u
            v == fn_in
            n == User_nick(u)
            user == User_user(u)
            host == User_host(u)
        IN  /\ User_raw(u) = v
            /\ v = n \o (IF user # <<>> THEN <<33>> \o user[1] ELSE <<>>)
                     \o (IF host # <<>> THEN <<64>> \o host[1] ELSE <<>>)
            /\ Len(n) = IF Marks(v) = {} THEN Len(v) ELSE Min(Marks(v)) - 1
            /\ user # <<>> <=> BangBeforeFirstAt(v)
            /\ host # <<>> <=> Ats(v) # {}
            /\ fn_out.again = u

\* "n!n@@": the host runs from the first '@' to the end, later marks included
Wit_C20_MarksInHost ==
    /\ fn_pc = "out"
    /\ fn_in = <<110, 33, 110, 64, 64>>
    /\ User_nick(fn_out.u) = <<110>>
    /\ User_user(fn_out.u) = <<(<<110>>)>>
    /\ User_host(fn_out.u) = <<(<<64>>)>>
    /\ fn_out.again = fn_out.u

(***************************************************************************)
(* C21. Dispatch precedes the callback: for every parsed line, what the    *)
(* dispatch writes and changes for that line comes before the LineReceived *)
(* event of that line; the callback for a PING line is invoked after its   *)
(* PONG has been written, and the callback for the welcome line sees       *)
(* logged_in true and the nickname updated.                                *)
(***************************************************************************)
IsDispatchWrite(e) == e.t = "write" /\ e.via = "handle_line"

C21_Step ==
    LET n == Len(hist)
        m == Len(hist')
    IN  IF StepRead /\ ParsedOf(StepLine) # None
        THEN LET line == unwrap(ParsedOf(StepLine)) IN
             \* after the read: the writes of the dispatch, then the event, if any
             /\ \A k \in (n + 2)..m :
                    \/ IsDispatchWrite(hist'[k])
                    \/ hist'[k].t = "io_error"
                    \/ k = m /\ hist'[k] = LineReceived(line)
             \* the callback is entered exactly when the event is given, logged in
             /\ (pc' = "cb_LineReceived") = (m > n + 1 /\ hist'[m].t = "LineReceived")
             /\ pc' = "cb_LineReceived" => logged_in'
             /\ (pc' = "cb_LineReceived" /\ line.command = IRCCmd(str_PING))
                    => (m > n + 2 /\ hist'[n + 2] = WriteEntry(PongFor(line), "handle_line"))
             /\ (pc' = "cb_LineReceived" /\ ~logged_in)
                    => /\ line.command = IRCCode(1)
                       /\ line.args # <<>> => nick' = line.args[1]
        \* the dispatch writes in no other step
        ELSE \A k \in (n + 1)..m : ~IsDispatchWrite(hist'[k])

Thm_C21_DispatchBeforeCallback == [][C21_Step]_vars

\* the welcome line is delivered with the nickname it carries in place, and the
\* PING line after it is delivered behind its PONG
Wit_C21_PongThenCallback ==
    /\ pc = "cb_LineReceived"
    /\ Len(hist) = 6
    /\ hist[2] = ReadEntry(line_welcome)
    /\ hist[3].t = "LineReceived"
    /\ hist[4] = ReadEntry(line_ping)
    /\ hist[5] = WriteEntry(str_PONG_a_b_c, "handle_line")
    /\ hist[6] = LineReceived(unwrap(ParsedOf(hist[4])))
    /\ logged_in
    /\ nick = str_bob

(***************************************************************************)
(* C22. Delivery after login: the first LineReceived event carries the     *)
(* welcome (Numeric(1)) line itself, and from that line on every parsed    *)
(* line, PING lines included, is delivered exactly once, in arrival order: *)
(* the LineReceived payloads are the parsed lines from the welcome line    *)
(* onwards; except that a task which fails on an io_error while the        *)
(* dispatch answers a line stops there, before that line's callback.       *)
(***************************************************************************)
IsParsedRead(e) == e.t = "read" /\ ParsedOf(e) # None
IsLineReceived(e) == e.t = "LineReceived"
PayloadsOf(h) == [i \in 1..Len(h) |-> h[i].l]

\* the payloads of the LineReceived events, in order
Delivered == PayloadsOf(SelectSeq(hist, IsLineReceived))

\* the parsed lines from the first welcome line on, in order
ParsedFromWelcome ==
    IF WelcomeWithin(Len(hist))
    THEN LET w == Min({j \in 1..Len(hist) : IsWelcomeRead(hist[j])})
         IN  PayloadsOf(SelectSeq(SubSeq(hist, w, Len(hist)), IsParsedRead))
    ELSE <<>>

\* the task failed in the dispatch of the last line read
FailedInDispatch ==
    /\ pc = "failed"
    /\ Len(hist) >= 3
    /\ Last(hist).t = "io_error"
    /\ IsDispatchWrite(hist[Len(hist) - 1])
    /\ IsParsedRead(hist[Len(hist) - 2])

HandshakeCommands == {IRCCode(1)} \cup RejectionCodes \cup {IRCCmd(str_PING)}

\* this step's entries of hist hold a write of the dispatch
StepDispatchWrites == \E k \in (Len(hist) + 1)..Len(hist') : IsDispatchWrite(hist'[k])

C23_Step ==
    (StepRead /\ ParsedOf(StepLine) # None) =>
        LET line == unwrap(ParsedOf(StepLine)) IN
        /\ (logged_in' # logged_in \/ nick' # nick \/ StepDispatchWrites)
               => IF logged_in THEN line.command = IRCCmd(str_PING)
                  ELSE line.command \in HandshakeCommands
        /\ line.command = IRCCode(1) =>
               /\ ~StepDispatchWrites
               /\ line.args = <<>> => nick' = nick

Thm_C23_DispatchFrame == [][C23_Step]_vars

\* after login, "433" is delivered as it is: nothing written, the nickname kept
Wit_C23_RejectionAfterLogin ==
    /\ Len(hist) = 5
    /\ hist[2] = ReadEntry(line_welcome0)
    /\ hist[3].t = "LineReceived"
    /\ hist[4] = ReadEntry(line_433)
    /\ hist[5].t = "LineReceived"
    /\ logged_in
    /\ nick = opts_nick

(***************************************************************************)
(* C24. Giving up is terminal: once the nick-mutation procedure has found  *)
(* an all-underscore nickname and written QUIT, the session writes no      *)
(* further NICK command for any line received afterwards.                  *)
(***************************************************************************)
IsDispatchQuit(e) == IsDispatchWrite(e) /\ e.b = str_QUIT_CRLF
IsDispatchNick(e) == IsDispatchWrite(e) /\ IsNickWrite(e)

Orig_C24_NoNickAfterQuit ==
    \A i \in 1..Len(hist) : \A j \in (i + 1)..Len(hist) :
        IsDispatchQuit(hist[i]) => ~IsDispatchNick(hist[j])

====
